---- MODULE Spec2Model ----
(***************************************************************************)
(* Model of STEMperator's audio-separator launcher                         *)
(* (scripts/reaper/audio_separator_process.py): device resolution, the     *)
(* two background progress estimators running beside the blocking foreign  *)
(* calls, and the reconciliation of the raw output files.                  *)
(*                                                                         *)
(* Strings are TLA+ strings handled with Len, SubSeq and \o, so that       *)
(* lower(), strip(), startswith(), split() and substring tests are         *)
(* computed character by character as Python computes them.                *)
(***************************************************************************)
EXTENDS Integers, Sequences, FiniteSets, TLC

VARIABLES
    host,           \* what torch / platform / torch_directml report on this machine
    token,          \* the device string handed to parse_device_string
    devResult,      \* what parse_device_string returned or raised
    catalog,        \* what detect_available_devices returned
    args,           \* the parsed command line
    installed,      \* whether audio_separator and torch can be imported
    pc,             \* where the foreground task (main, separate_stems) stands
    exitCode,       \* the process exit code, NoExit while the process runs
    stdout,         \* the lines written to standard output, in order
    pending,        \* what was written to sys.stdout and is not flushed yet
    stderr,         \* the lines written to standard error, in order
    failure,        \* the call that raised, "none" if none did
    loading_done,   \* threading.Event of the loading estimator
    processing_done,\* threading.Event of the processing estimator
    loader,         \* the loading_progress_thread: its position and locals
    loading_progress,\* the one-element list the loading thread writes
    progress,       \* the progress_thread: its position and locals
    loaderJoin,     \* how loading_worker.join(timeout=1.0) returned
    progressJoin,   \* how progress_worker.join(timeout=1.0) returned
    duration_seconds,
    estimated_time,
    output_dir,     \* the output directory argument, as given on the command line
    output_files,   \* what separator.separate returned
    fs,             \* the files that exist: path -> what the file holds
    result,         \* the stem mapping built so far
    fileOps,        \* the os.remove and shutil.move calls made, in order
    fileIdx         \* index of the raw output file the loop handles next

devVars == <<host, token, devResult, catalog>>

runVars == <<args, installed, pc, exitCode, stdout, pending, stderr, failure, loading_done,
             processing_done, loader, loading_progress, progress, loaderJoin,
             progressJoin, duration_seconds, estimated_time>>

recVars == <<output_dir, output_files, fs, result, fileOps, fileIdx>>

vars == <<host, token, devResult, catalog, args, installed, pc, exitCode, stdout,
          pending, stderr, failure, loading_done, processing_done, loader, loading_progress,
          progress, loaderJoin, progressJoin, duration_seconds, estimated_time,
          output_dir, output_files, fs, result, fileOps, fileIdx>>

(***************************************************************************)
(* Bounds                                                                  *)
(***************************************************************************)
\* most devices of one kind a host reports
MaxDevices == 2

\* most ticks the two estimators make in a run, taken together
MaxTicks == 2

(***************************************************************************)
(* Python string helpers                                                   *)
(***************************************************************************)
UpperChars == "ABCDEFGHIJKLMNOPQRSTUVWXYZ"

LowerChars == "abcdefghijklmnopqrstuvwxyz"

DigitChars == "0123456789"

CharAt(s, i) == SubSeq(s, i, i)

\* the lower-case letter of every upper-case letter
UpperToLower ==
    [c \in { CharAt(UpperChars, i) : i \in 1..Len(UpperChars) } |->
        CharAt(LowerChars, CHOOSE i \in 1..Len(UpperChars) : CharAt(UpperChars, i) = c)]

\* str.lower() on one character
LowerChar(c) == IF c \in DOMAIN UpperToLower THEN UpperToLower[c] ELSE c

RECURSIVE StrLower(_)
\* str.lower()
StrLower(s) ==
    IF Len(s) = 0 THEN s
    ELSE LowerChar(CharAt(s, 1)) \o StrLower(SubSeq(s, 2, Len(s)))

IsSpace(c) == c = " "

RECURSIVE LStrip(_)
LStrip(s) ==
    IF Len(s) > 0 /\ IsSpace(CharAt(s, 1)) THEN LStrip(SubSeq(s, 2, Len(s))) ELSE s

RECURSIVE RStrip(_)
RStrip(s) ==
    IF Len(s) > 0 /\ IsSpace(CharAt(s, Len(s))) THEN RStrip(SubSeq(s, 1, Len(s) - 1)) ELSE s

\* str.strip()
StrStrip(s) == LStrip(RStrip(s))

\* str.startswith(p)
StartsWith(s, p) == Len(s) >= Len(p) /\ SubSeq(s, 1, Len(p)) = p

\* p in s
Contains(s, p) ==
    \E i \in 1..(Len(s) - Len(p) + 1) : SubSeq(s, i, i + Len(p) - 1) = p

\* position of the first occurrence of the one-character string c in s, 0 if none
FindChar(s, c) ==
    IF Contains(s, c)
    THEN CHOOSE i \in 1..Len(s) :
            /\ CharAt(s, i) = c
            /\ \A j \in 1..(i - 1) : CharAt(s, j) # c
    ELSE 0

\* s.split(":")[1] for a string that holds a colon
SplitColon1(s) ==
    LET rest == SubSeq(s, FindChar(s, ":") + 1, Len(s))
        k    == FindChar(rest, ":")
    IN  IF k = 0 THEN rest ELSE SubSeq(rest, 1, k - 1)

IsDigit(c) == \E i \in 1..Len(DigitChars) : CharAt(DigitChars, i) = c

DigitVal(c) == (CHOOSE i \in 1..Len(DigitChars) : CharAt(DigitChars, i) = c) - 1

AllDigits(s) == Len(s) > 0 /\ \A i \in 1..Len(s) : IsDigit(CharAt(s, i))

RECURSIVE DigitsVal(_)
DigitsVal(s) ==
    IF Len(s) = 0 THEN 0
    ELSE DigitsVal(SubSeq(s, 1, Len(s) - 1)) * 10 + DigitVal(CharAt(s, Len(s)))

\* int(s): [ok, value]; ok = FALSE stands for ValueError
PyInt(s) ==
    IF AllDigits(s) THEN [ok |-> TRUE, value |-> DigitsVal(s)]
    ELSE IF Len(s) > 1 /\ CharAt(s, 1) = "-" /\ AllDigits(SubSeq(s, 2, Len(s)))
         THEN [ok |-> TRUE, value |-> 0 - DigitsVal(SubSeq(s, 2, Len(s)))]
    ELSE IF Len(s) > 1 /\ CharAt(s, 1) = "+" /\ AllDigits(SubSeq(s, 2, Len(s)))
         THEN [ok |-> TRUE, value |-> DigitsVal(SubSeq(s, 2, Len(s)))]
    ELSE [ok |-> FALSE, value |-> 0]

RECURSIVE IntStr(_)
\* f"{i}" for a natural number
IntStr(i) ==
    IF i < 10 THEN CharAt(DigitChars, i + 1)
    ELSE IntStr(i \div 10) \o CharAt(DigitChars, (i % 10) + 1)

(***************************************************************************)
(* Device catalog and resolver                                             *)
(***************************************************************************)
Systems == {"Windows", "Linux", "Darwin"}

\* The machine as the probes see it: platform.system(), torch.cuda
\* (is_available() is device_count() > 0), whether "import torch_directml"
\* succeeds and its device_count(), whether torch_directml.device(i) rejects an
\* index outside 0..device_count()-1 (it depends on the library version), and
\* torch.backends.mps.is_available().  The Apple GPU exists on macOS only, and
\* CUDA and DirectML builds do not exist there.
Hosts ==
    { h \in [ system        : Systems,
              cuda_count    : 0..MaxDevices,
              dml_installed : BOOLEAN,
              dml_count     : 0..MaxDevices,
              dml_checks    : BOOLEAN,
              mps           : BOOLEAN ] :
        /\ h.mps => h.system = "Darwin"
        /\ h.system = "Darwin" => (h.cuda_count = 0 /\ ~h.dml_installed)
        /\ ~h.dml_installed => (h.dml_count = 0 /\ h.dml_checks) }

\* the --device strings tried
Tokens ==
    { "auto", "Auto", "cpu", " CPU ", "cuda", "cuda:0", "cuda:1", "cuda:5", "CUDA:0",
      "cuda:x", "directml", "directml:0", "directml:1", "directml:5", "directml:",
      "directml:x", "mps", "mps:0", "gpu", "tpu:0", "xcuda:0", "cpu:0", "" }

NoIndex == 0 - 1

CpuDevice == [type |-> "cpu", index |-> NoIndex]

cuda_is_available(h) == h.cuda_count > 0

mps_is_available(h) == h.mps

\* detect_available_devices(): the device strings, in the order appended
\* (the display names carry no logic and are left out)
detect_available_devices(h) ==
    LET cuda == IF cuda_is_available(h)
                THEN [i \in 1..h.cuda_count |-> "cuda:" \o IntStr(i - 1)]
                ELSE << >>
        dml  == IF h.system = "Windows" /\ h.dml_installed
                THEN [i \in 1..h.dml_count |-> "directml:" \o IntStr(i - 1)]
                ELSE << >>
        mps  == IF mps_is_available(h) THEN <<"mps">> ELSE << >>
    IN  <<"cpu">> \o cuda \o dml \o mps

\* what a call of parse_device_string ends with
Returned(dev, backend, warnings) ==
    [raised |-> FALSE, device |-> dev, backend |-> backend, warnings |-> warnings]

Raised(what) ==
    [raised |-> TRUE, device |-> CpuDevice, backend |-> what, warnings |-> << >>]

\* torch.device(s) for a string that starts with "cuda": "cuda" and "cuda:<digits>"
\* are device strings, anything else is a RuntimeError; the index is not compared
\* with the number of devices
torch_device_cuda(s) ==
    IF s = "cuda" THEN [ok |-> TRUE, device |-> [type |-> "cuda", index |-> NoIndex]]
    ELSE IF StartsWith(s, "cuda:") /\ AllDigits(SubSeq(s, 6, Len(s)))
         THEN [ok |-> TRUE,
               device |-> [type |-> "cuda", index |-> DigitsVal(SubSeq(s, 6, Len(s)))]]
    ELSE [ok |-> FALSE, device |-> CpuDevice]

\* torch_directml.device(i): the device, or an exception when the library checks
\* the index and it names no device
torch_directml_device(h, i) ==
    IF h.dml_checks /\ ~(i \in 0..(h.dml_count - 1))
    THEN [ok |-> FALSE, device |-> CpuDevice]
    ELSE [ok |-> TRUE, device |-> [type |-> "directml", index |-> i]]

ParseAuto(h) ==
    IF cuda_is_available(h)
    THEN Returned([type |-> "cuda", index |-> 0], "cuda", << >>)
    ELSE IF h.system = "Windows"
         THEN IF h.dml_installed
              THEN LET d == torch_directml_device(h, 0)
                   IN  IF d.ok THEN Returned(d.device, "directml", << >>)
                       ELSE Raised("Exception")
              ELSE Returned(CpuDevice, "cpu", << >>)
    ELSE IF mps_is_available(h)
         THEN Returned([type |-> "mps", index |-> NoIndex], "mps", << >>)
    ELSE Returned(CpuDevice, "cpu", << >>)

ParseCuda(h, s) ==
    IF cuda_is_available(h)
    THEN LET d == torch_device_cuda(s)
         IN  IF d.ok THEN Returned(d.device, "cuda", << >>) ELSE Raised("RuntimeError")
    ELSE Returned(CpuDevice, "cpu", <<"WARNING: CUDA not available">>)

ParseDirectML(h, s) ==
    IF ~h.dml_installed
    THEN Returned(CpuDevice, "cpu", <<"WARNING: torch-directml not installed">>)
    ELSE LET n  == IF Contains(s, ":") THEN PyInt(SplitColon1(s))
                   ELSE [ok |-> TRUE, value |-> 0]
         IN  IF ~n.ok
             THEN Returned(CpuDevice, "cpu", <<"WARNING: Invalid DirectML device string">>)
             ELSE LET d == torch_directml_device(h, n.value)
                  IN  IF d.ok THEN Returned(d.device, "directml", << >>)
                      ELSE Raised("Exception")

ParseMps(h) ==
    IF mps_is_available(h)
    THEN Returned([type |-> "mps", index |-> NoIndex], "mps", << >>)
    ELSE Returned(CpuDevice, "cpu", <<"WARNING: MPS not available">>)

\* the unknown-token fallback without its warning
ParseUnknown_Silent(s) ==
    Returned(CpuDevice, "cpu", << >>)

ParseUnknown(s) ==
    Returned(CpuDevice, "cpu", <<"WARNING: Unknown device string">>)

\* parse_device_string(device_str) on host h
parse_device_string(h, device_str) ==
    LET s == StrStrip(StrLower(device_str))
    IN  IF s = "auto" THEN ParseAuto(h)
        ELSE IF s = "cpu" THEN Returned(CpuDevice, "cpu", << >>)
        ELSE IF StartsWith(s, "cuda") THEN ParseCuda(h, s)
        ELSE IF StartsWith(s, "directml") THEN ParseDirectML(h, s)
        ELSE IF s = "mps" THEN ParseMps(h)
        ELSE ParseUnknown(s)

\* str(torch_device), with the current device of a kind written as its index 0
DeviceString(d) ==
    IF d.type \in {"cpu", "mps"} THEN d.type
    ELSE IF d.index < 0 THEN d.type \o ":" \o (IF d.index = NoIndex THEN "0" ELSE "-")
    ELSE d.type \o ":" \o IntStr(d.index)

Range(f) == { f[i] : i \in DOMAIN f }

NoResult == [raised |-> FALSE, device |-> CpuDevice, backend |-> "none", warnings |-> << >>]

(***************************************************************************)
(* Progress emitter and the estimators' curves                             *)
(***************************************************************************)
NoExit == 0 - 1

\* emit_progress(percent, stage): one whole line appended to standard output and
\* flushed; src names the task that made the call
emit_progress(out, percent, stage, src) ==
    Append(out, [kind |-> "PROGRESS", percent |-> percent, stage |-> stage, src |-> src])

\* time constant of the loading curve, in seconds
LoadingTimeConstant == 15

\* 1 - 0.5 ** k is exactly 1.0 in binary64 from this k on (1 - 2^-54 rounds to 1.0)
FloatOneHalfLives == 54

\* the multiples k of a curve's time constant at which an estimator reads the clock
HalfLives == {0, 1, FloatOneHalfLives}

RECURSIVE Pow2(_)
Pow2(n) == IF n = 0 THEN 1 ELSE 2 * Pow2(n - 1)

\* int(span * (1 - 0.5 ** k)) for a whole number k of half-lives and span < 2^20,
\* as binary64 computes it: below FloatOneHalfLives the ratio 1 - 2^-k is exact and
\* the product stays below span
CurveInt(span, k) ==
    IF k >= FloatOneHalfLives THEN span
    ELSE IF k >= 20 THEN span - 1
    ELSE (span * (Pow2(k) - 1)) \div Pow2(k)

Min(a, b) == IF a < b THEN a ELSE b

Max(a, b) == IF a > b THEN a ELSE b

\* the clock readings a task can see when the previous reading was e
ElapsedSamples(timeConstant, e) ==
    { t \in { k * (IF timeConstant > 0 THEN timeConstant ELSE 1) : k \in HalfLives } :
        t >= e }

\* a loading curve that falls from 10 as time passes
LoadingPercent_Falling(elapsed) ==
    Max(1, 10 - CurveInt(9, elapsed \div 15))

\* loading_progress_thread: percent for an elapsed time that is a multiple of the
\* time constant
LoadingPercent(elapsed) ==
    Min(10, 1 + CurveInt(9, elapsed \div LoadingTimeConstant))

LoadingStage(elapsed) ==
    IF elapsed < 60 THEN "Loading model (s)" ELSE "Loading model (m:ss)"

\* progress_thread: percent before the clamp
ProcessingRaw(elapsed, est) ==
    IF est > 0 THEN 12 + CurveInt(76, elapsed \div est)
    ELSE Min(88, 12 + elapsed * 2)

\* the processing percent without its cap
ProcessingPercent_Uncapped(elapsed, est, last_percent) ==
    Max(last_percent, IF est > 0 THEN 12 + CurveInt(76, elapsed \div est)
                      ELSE 12 + elapsed * 2)

\* progress_thread: "never go backwards, cap at 88%"
ProcessingPercent(elapsed, est, last_percent) ==
    Min(88, Max(last_percent, ProcessingRaw(elapsed, est)))

\* an inner guard that asks for 10% of the main work
HasEta_TenPercent(percent) ==
    percent > 15 /\ (percent - 12) * 100 > 10 * 78

\* progress_thread: whether the stage text carries an ETA
\* ((percent - 12) / 78.0 > 0.05 compared as (percent - 12) * 100 > 5 * 78)
HasEta(percent) ==
    percent > 15 /\ (percent - 12) * 100 > 5 * 78

ProcessingStage(percent) ==
    IF HasEta(percent) THEN "Processing (m:ss | ETA m:ss)" ELSE "Processing (m:ss)"

(***************************************************************************)
(* Stem reconciler (the renaming loop at the end of separate_stems)        *)
(***************************************************************************)
\* most raw output files one separation returns
MaxFiles == 2

\* the output directory of the runs explored
OutputDir == "/out"

\* the working directory of the process
Cwd == "/w"

\* the output directories the renaming loop is run with: an absolute one and one
\* relative to the working directory
OutputDirs == {OutputDir, "out"}

\* stem_mapping, a dict: iteration follows insertion order
StemNames == <<"vocals", "drums", "bass", "other", "guitar", "piano">>

StemPatterns(stem_name) ==
    CASE stem_name = "vocals" -> <<"vocals", "vocal", "Vocals">>
      [] stem_name = "drums"  -> <<"drums", "drum", "Drums">>
      [] stem_name = "bass"   -> <<"bass", "Bass">>
      [] stem_name = "other"  -> <<"other", "Other", "no_vocals", "instrumental",
                                   "Instrumental">>
      [] stem_name = "guitar" -> <<"guitar", "Guitar">>
      [] stem_name = "piano"  -> <<"piano", "Piano", "keys", "Keys">>

\* os.path.isabs
IsAbs(path) == StartsWith(path, "/")

\* os.path.join(d, f)
PathJoin(d, f) ==
    IF IsAbs(f) THEN f
    ELSE IF Len(d) = 0 \/ CharAt(d, Len(d)) = "/" THEN d \o f
    ELSE d \o "/" \o f

\* position of the last occurrence of the one-character string c in s, 0 if none
RFindChar(s, c) ==
    IF Contains(s, c)
    THEN CHOOSE i \in 1..Len(s) :
            /\ CharAt(s, i) = c
            /\ \A j \in (i + 1)..Len(s) : CharAt(s, j) # c
    ELSE 0

\* Path(p).name
PathName(path) == SubSeq(path, RFindChar(path, "/") + 1, Len(path))

\* Path(p).stem: the name without its last suffix
PathStem(path) ==
    LET name == PathName(path)
        dot  == RFindChar(name, ".")
    IN  IF dot > 1 /\ dot < Len(name) THEN SubSeq(name, 1, dot - 1) ELSE name

\* whether some pattern of the stem, lower-cased, occurs in filename
StemMatches(stem_name, filename) ==
    \E k \in DOMAIN StemPatterns(stem_name) :
        Contains(filename, StrLower(StemPatterns(stem_name)[k]))

\* the file a path names: the operating system resolves a relative path against
\* the working directory
RealPath(path) == PathJoin(Cwd, path)

\* os.path.exists(path); files is keyed by resolved path
Exists(files, path) == RealPath(path) \in DOMAIN files

\* os.remove(path)
Remove(files, path) == [q \in (DOMAIN files) \ {RealPath(path)} |-> files[q]]

\* shutil.move(src, dst) of an existing file
Move(files, src, dst) ==
    [q \in ((DOMAIN files) \ {RealPath(src)}) \cup {RealPath(dst)} |->
        IF q = RealPath(dst) THEN files[RealPath(src)] ELSE files[q]]

\* result[stem_name] = new_path
SetItem(map, key, value) ==
    [k \in (DOMAIN map) \cup {key} |-> IF k = key THEN value ELSE map[k]]

\* "if not os.path.isabs(output_file): output_file = os.path.join(output_dir, ...)"
OutputFileIn(dir, raw) == IF IsAbs(raw) THEN raw ELSE PathJoin(dir, raw)

OutputFile(raw) == OutputFileIn(output_dir, raw)

\* the body run for one stem_name of stem_mapping.items() when a pattern matches:
\* the break that follows it leaves the pattern loop only
RenameTo(st, output_file, stem_name) ==
    LET new_path == PathJoin(output_dir, stem_name \o ".wav")
        removed  == output_file # new_path /\ Exists(st.fs, new_path)
        fs1      == IF removed THEN Remove(st.fs, new_path) ELSE st.fs
        ops1     == IF removed THEN Append(st.ops, [op |-> "remove", src |-> new_path,
                                                    dst |-> new_path])
                    ELSE st.ops
    IN  IF output_file = new_path
        THEN [st EXCEPT !.result = SetItem(st.result, stem_name, new_path),
                        !.log = Append(st.log, stem_name)]
        ELSE IF ~Exists(fs1, output_file)
             THEN [st EXCEPT !.fs = fs1, !.ops = ops1, !.raised = TRUE]
        ELSE [st EXCEPT !.fs = Move(fs1, output_file, new_path),
                        !.ops = Append(ops1, [op |-> "move", src |-> output_file,
                                              dst |-> new_path]),
                        !.result = SetItem(st.result, stem_name, new_path),
                        !.log = Append(st.log, stem_name)]

\* the raw output file names tried
RawNames ==
    { "Vocals.wav", "no_vocals.wav", "drums.wav", "Bass.flac", "other.wav",
      "Instrumental.wav", "bass_guitar.wav", "keys.wav", "mix.wav",
      "/out/vocals.wav", "/tmp/Drums.wav", "Vocals.flac", "no_vocals.flac",
      "/w/out/vocals.wav", "bass.wav" }

\* "filename = Path(output_file).stem.lower()" of every raw output, tabulated by
\* output directory
Filename ==
    [dir \in OutputDirs |->
        [raw \in RawNames |-> StrLower(PathStem(OutputFileIn(dir, raw)))]]

\* a table that sends a file name no pattern matches to "other"
StemsMatching_OtherByDefault ==
    [f \in { Filename[dir][raw] : dir \in OutputDirs, raw \in RawNames } |->
        LET found == { i \in DOMAIN StemNames : StemMatches(StemNames[i], f) }
        IN  IF found = {} THEN {4} ELSE found]

\* "any(pattern.lower() in filename for pattern in patterns)", tabulated: the
\* stems whose patterns match each file name
StemsMatching ==
    [f \in { Filename[dir][raw] : dir \in OutputDirs, raw \in RawNames } |->
        { i \in DOMAIN StemNames : StemMatches(StemNames[i], f) }]

RECURSIVE StemLoop(_, _, _, _)
\* for stem_name, patterns in stem_mapping.items(), from the i-th item on
StemLoop(st, output_file, filename, i) ==
    IF i > Len(StemNames) \/ st.raised THEN st
    ELSE IF i \in StemsMatching[filename]
         THEN StemLoop(RenameTo(st, output_file, StemNames[i]), output_file, filename, i + 1)
    ELSE StemLoop(st, output_file, filename, i + 1)

\* one pass of "for output_file in output_files"
ReconcileOne(st, raw) ==
    StemLoop(st, OutputFile(raw), Filename[output_dir][raw], 1)

\* the file a raw output names when the output directory is dir
AbsPathIn(dir, raw) == RealPath(OutputFileIn(dir, raw))

AbsPath(raw) == AbsPathIn(output_dir, raw)

\* the lists separator.separate can return: distinct files
RawLists(dir, names, n) ==
    { l \in UNION { [1..k -> names] : k \in 0..n } :
        \A i, j \in DOMAIN l : i # j => AbsPathIn(dir, l[i]) # AbsPathIn(dir, l[j]) }

\* the files on disk after the separation: every raw output, holding its own
\* audio, and the files old that an earlier run left in the output directory
FilesAfterSeparation(dir, raws, old) ==
    LET raw_paths == { AbsPathIn(dir, raws[i]) : i \in DOMAIN raws }
        old_paths == { AbsPathIn(dir, f) : f \in old }
    IN  [q \in raw_paths \cup old_paths |->
            IF q \in raw_paths THEN "raw " \o q ELSE "old " \o q]

\* what an earlier run may have left behind in the output directory
OldFiles == { {}, {"vocals.wav", "other.wav"} }

EmptyMap == [k \in {} |-> ""]

RecIdle ==
    /\ output_dir = OutputDir
    /\ output_files = << >>
    /\ fs = EmptyMap
    /\ result = EmptyMap
    /\ fileOps = << >>
    /\ fileIdx = 1

(***************************************************************************)
(* The run: main and separate_stems on the foreground, the two estimators  *)
(***************************************************************************)
\* the command lines tried
ArgSets ==
    { [check |-> c, list_models |-> lm, list_devices |-> ld, input |-> i,
       output_dir |-> o, input_exists |-> e, gpu_set |-> g, gpu_id |-> n] :
        c \in BOOLEAN, lm \in BOOLEAN, ld \in BOOLEAN, i \in BOOLEAN, o \in BOOLEAN,
        e \in BOOLEAN, g \in BOOLEAN, n \in {0 - 1, 0} }

\* the runs explored: plain runs and one command line for each early exit
RunArgs ==
    { a \in ArgSets :
        /\ (a.input_exists => a.input)
        /\ (~a.gpu_set => a.gpu_id = 0)
        /\ \/ ~a.check /\ ~a.list_models /\ ~a.list_devices /\ a.output_dir
           \/ /\ Cardinality({f \in {"c", "m", "d"} :
                                 \/ f = "c" /\ a.check
                                 \/ f = "m" /\ a.list_models
                                 \/ f = "d" /\ a.list_devices}) <= 1
              /\ ~a.gpu_set /\ ~a.input /\ ~a.output_dir }

\* the plain command line: both positional arguments, an existing input
PlainArgs ==
    [check |-> FALSE, list_models |-> FALSE, list_devices |-> FALSE, input |-> TRUE,
     output_dir |-> TRUE, input_exists |-> TRUE, gpu_set |-> FALSE, gpu_id |-> 0]

CpuHost == [system |-> "Linux", cuda_count |-> 0, dml_installed |-> FALSE,
            dml_count |-> 0, dml_checks |-> TRUE, mps |-> FALSE]

CudaHost == [system |-> "Linux", cuda_count |-> 1, dml_installed |-> FALSE,
             dml_count |-> 0, dml_checks |-> TRUE, mps |-> FALSE]

\* The runs explored, each a command line, a machine and whether the libraries
\* import: every early exit of main, with and without the libraries; a plain run
\* on a CUDA device; a run whose --device makes torch.device raise; and the
\* deprecated --gpu-id, which only replaces the device string, on a machine where
\* the imports fail
Runs ==
    { [args |-> a, host |-> CpuHost, token |-> "auto", installed |-> i] :
        a \in { x \in RunArgs : ~x.gpu_set /\ x # PlainArgs }, i \in BOOLEAN }
    \cup { [args |-> PlainArgs, host |-> CpuHost, token |-> "auto", installed |-> FALSE] }
    \cup { [args |-> PlainArgs, host |-> CudaHost, token |-> t, installed |-> TRUE] :
             t \in {"auto", "cuda:x"} }
    \cup { [args |-> a, host |-> CpuHost, token |-> "auto", installed |-> FALSE] :
             a \in { x \in RunArgs : x.gpu_set /\ x.input_exists } }

\* what soundfile reports as the duration of the input, in seconds
Durations == {0}

IdleLoader == [pc |-> "idle", elapsed |-> 0, percent |-> 0, ticks |-> 0]

IdleProgress == [pc |-> "idle", elapsed |-> 0, percent |-> 0, last_percent |-> 11, ticks |-> 0]

RunIdle ==
    /\ pc = "main"
    /\ exitCode = NoExit
    /\ stdout = << >>
    /\ pending = << >>
    /\ stderr = << >>
    /\ failure = "none"
    /\ loading_done = FALSE
    /\ processing_done = FALSE
    /\ loader = IdleLoader
    /\ loading_progress = 0
    /\ progress = IdleProgress
    /\ loaderJoin = "none"
    /\ progressJoin = "none"
    /\ duration_seconds = 0
    /\ estimated_time = 0

Init ==
    /\ \E r \in Runs :
          /\ host = r.host
          /\ token = r.token
          /\ args = r.args
          /\ installed = r.installed
    /\ devResult = NoResult
    /\ catalog = << >>
    /\ RunIdle
    /\ RecIdle

Running == pc # "exited"

\* sys.exit(code) on the foreground: the process ends, daemon threads with it
Exit(code) ==
    /\ pc' = "exited"
    /\ exitCode' = code

\* an exception leaves separate_stems for main's "except Exception"
Raise(what) ==
    /\ pc' = "except"
    /\ failure' = what

\* main, --check: check_installation
MainCheck ==
    /\ pc = "main" /\ args.check
    /\ IF installed
       THEN /\ catalog' = detect_available_devices(host)
            /\ stderr' = stderr \o <<"audio-separator: OK", "PyTorch", "Available devices">>
            /\ stdout' = Append(stdout, [kind |-> "TEXT", percent |-> 0,
                                         stage |-> "Installation OK!", src |-> "fg"])
            /\ Exit(0)
       ELSE /\ stderr' = stderr \o <<"ERROR", "Install with">>
            /\ Exit(1)
            /\ UNCHANGED <<catalog, stdout>>
    /\ UNCHANGED <<pending, host, token, devResult, args, installed, failure, loading_done,
                   processing_done, loader, loading_progress, progress, loaderJoin,
                   progressJoin, duration_seconds, estimated_time, recVars>>

\* main, --list-models
MainListModels ==
    /\ pc = "main" /\ ~args.check /\ args.list_models
    /\ stdout' = Append(stdout, [kind |-> "TEXT", percent |-> 0,
                                 stage |-> "Popular models", src |-> "fg"])
    /\ Exit(0)
    /\ UNCHANGED <<pending, host, token, devResult, catalog, args, installed, stderr, failure,
                   loading_done, processing_done, loader, loading_progress, progress,
                   loaderJoin, progressJoin, duration_seconds, estimated_time, recVars>>

\* main, --list-devices: detect_available_devices imports torch
MainListDevices ==
    /\ pc = "main" /\ ~args.check /\ ~args.list_models /\ args.list_devices
    /\ IF installed
       THEN /\ catalog' = detect_available_devices(host)
            /\ stdout' = Append(stdout, [kind |-> "TEXT", percent |-> 0,
                                         stage |-> "Available devices", src |-> "fg"])
            /\ Exit(0)
            /\ UNCHANGED stderr
       ELSE /\ stderr' = Append(stderr, "Traceback")
            /\ Exit(1)
            /\ UNCHANGED <<catalog, stdout>>
    /\ UNCHANGED <<pending, host, token, devResult, args, installed, failure, loading_done,
                   processing_done, loader, loading_progress, progress, loaderJoin,
                   progressJoin, duration_seconds, estimated_time, recVars>>

NoEarlyExitOf(a) == ~a.check /\ ~a.list_models /\ ~a.list_devices

NoEarlyExit == NoEarlyExitOf(args)

\* main: a positional argument is missing
MainUsage ==
    /\ pc = "main" /\ NoEarlyExit
    /\ ~args.input \/ ~args.output_dir
    /\ stdout' = Append(stdout, [kind |-> "TEXT", percent |-> 0,
                                 stage |-> "usage", src |-> "fg"])
    /\ Exit(1)
    /\ UNCHANGED <<pending, host, token, devResult, catalog, args, installed, stderr, failure,
                   loading_done, processing_done, loader, loading_progress, progress,
                   loaderJoin, progressJoin, duration_seconds, estimated_time, recVars>>

\* main: the input file does not exist
MainNoInput ==
    /\ pc = "main" /\ NoEarlyExit
    /\ args.input /\ args.output_dir /\ ~args.input_exists
    /\ stderr' = Append(stderr, "ERROR: Input file not found")
    /\ Exit(1)
    /\ UNCHANGED <<pending, host, token, devResult, catalog, args, installed, stdout, failure,
                   loading_done, processing_done, loader, loading_progress, progress,
                   loaderJoin, progressJoin, duration_seconds, estimated_time, recVars>>

\* main: the deprecated --gpu-id replaces --device, then separate_stems is called
MainCall ==
    /\ pc = "main" /\ NoEarlyExit
    /\ args.input /\ args.output_dir /\ args.input_exists
    /\ IF args.gpu_set
       THEN /\ stderr' = Append(stderr, "WARNING: --gpu-id is deprecated")
            /\ token' = IF args.gpu_id < 0 THEN "cpu" ELSE "cuda:" \o IntStr(args.gpu_id)
       ELSE UNCHANGED <<stderr, token>>
    /\ pc' = "setup"
    /\ UNCHANGED <<pending, host, devResult, catalog, args, installed, exitCode, stdout, failure,
                   loading_done, processing_done, loader, loading_progress, progress,
                   loaderJoin, progressJoin, duration_seconds, estimated_time, recVars>>

\* separate_stems emitting its first PROGRESS line before the imports
Setup_EmitsFirst ==
    /\ pc = "setup"
    /\ stdout' = emit_progress(stdout, 0, "Initializing", "fg")
    /\ IF installed THEN pc' = "device" /\ UNCHANGED failure ELSE Raise("import")
    /\ UNCHANGED <<pending, host, token, devResult, catalog, args, installed, exitCode,
                   stderr, loading_done, processing_done, loader, loading_progress,
                   progress, loaderJoin, progressJoin, duration_seconds, estimated_time, recVars>>

\* separate_stems: the imports and os.makedirs
Setup ==
    /\ pc = "setup"
    /\ IF installed THEN pc' = "emit0" /\ UNCHANGED failure ELSE Raise("import")
    /\ UNCHANGED <<pending, host, token, devResult, catalog, args, installed, exitCode, stdout,
                   stderr, loading_done, processing_done, loader, loading_progress,
                   progress, loaderJoin, progressJoin, duration_seconds, estimated_time, recVars>>

\* emit_progress(0, "Initializing") and the three log lines
Emit0 ==
    /\ pc = "emit0"
    /\ stdout' = emit_progress(stdout, 0, "Initializing", "fg")
    /\ stderr' = stderr \o <<"Loading model", "Input", "Output">>
    /\ pc' = "device"
    /\ UNCHANGED <<pending, host, token, devResult, catalog, args, installed, exitCode, failure,
                   loading_done, processing_done, loader, loading_progress, progress,
                   loaderJoin, progressJoin, duration_seconds, estimated_time, recVars>>

\* parse_device_string(device) and the device log lines
SelectDevice ==
    /\ pc = "device"
    /\ LET r == parse_device_string(host, token)
       IN  /\ devResult' = r
           /\ IF r.raised
              THEN /\ Raise(r.backend)
                   /\ stderr' = stderr \o r.warnings
              ELSE /\ pc' = "start_loader"
                   /\ stderr' = stderr \o r.warnings \o <<"Requested device", "Using device">>
                   /\ UNCHANGED failure
    /\ UNCHANGED <<pending, host, token, catalog, args, installed, exitCode, stdout,
                   loading_done, processing_done, loader, loading_progress, progress,
                   loaderJoin, progressJoin, duration_seconds, estimated_time, recVars>>

\* loading_worker.start()
StartLoader ==
    /\ pc = "start_loader"
    /\ loader' = [loader EXCEPT !.pc = "check"]
    /\ pc' = "emit1"
    /\ UNCHANGED <<pending, host, token, devResult, catalog, args, installed, exitCode, stdout,
                   stderr, failure, loading_done, processing_done, loading_progress,
                   progress, loaderJoin, progressJoin, duration_seconds, estimated_time, recVars>>

\* emit_progress(1, "Initializing")
Emit1 ==
    /\ pc = "emit1"
    /\ stdout' = emit_progress(stdout, 1, "Initializing", "fg")
    /\ pc' = "Separator"
    /\ UNCHANGED <<pending, host, token, devResult, catalog, args, installed, exitCode, stderr,
                   failure, loading_done, processing_done, loader, loading_progress,
                   progress, loaderJoin, progressJoin, duration_seconds, estimated_time, recVars>>

\* Separator(...) returns
SeparatorReturns ==
    /\ pc = "Separator"
    /\ pc' = "emit3"
    /\ UNCHANGED <<pending, host, token, devResult, catalog, args, installed, exitCode, stdout,
                   stderr, failure, loading_done, processing_done, loader,
                   loading_progress, progress, loaderJoin, progressJoin,
                   duration_seconds, estimated_time, recVars>>

\* Separator(...) raises: nothing between it and main's handler stops the thread
SeparatorRaises ==
    /\ pc = "Separator"
    /\ Raise("Separator")
    /\ UNCHANGED <<pending, host, token, devResult, catalog, args, installed, exitCode, stdout,
                   stderr, loading_done, processing_done, loader, loading_progress,
                   progress, loaderJoin, progressJoin, duration_seconds, estimated_time, recVars>>

\* emit_progress(3, "Loading AI model")
Emit3 ==
    /\ pc = "emit3"
    /\ stdout' = emit_progress(stdout, 3, "Loading AI model", "fg")
    /\ pc' = "load_model"
    /\ UNCHANGED <<pending, host, token, devResult, catalog, args, installed, exitCode, stderr,
                   failure, loading_done, processing_done, loader, loading_progress,
                   progress, loaderJoin, progressJoin, duration_seconds, estimated_time, recVars>>

\* separator.load_model(...) returns
LoadModelReturns ==
    /\ pc = "load_model"
    /\ pc' = "set_loading_done"
    /\ UNCHANGED <<pending, host, token, devResult, catalog, args, installed, exitCode, stdout,
                   stderr, failure, loading_done, processing_done, loader,
                   loading_progress, progress, loaderJoin, progressJoin,
                   duration_seconds, estimated_time, recVars>>

\* separator.load_model(...) raises
LoadModelRaises ==
    /\ pc = "load_model"
    /\ Raise("load_model")
    /\ UNCHANGED <<pending, host, token, devResult, catalog, args, installed, exitCode, stdout,
                   stderr, loading_done, processing_done, loader, loading_progress,
                   progress, loaderJoin, progressJoin, duration_seconds, estimated_time, recVars>>

\* loading_done.set()
SetLoadingDone ==
    /\ pc = "set_loading_done"
    /\ loading_done' = TRUE
    /\ pc' = "join_loader"
    /\ UNCHANGED <<pending, host, token, devResult, catalog, args, installed, exitCode, stdout,
                   stderr, failure, processing_done, loader, loading_progress, progress,
                   loaderJoin, progressJoin, duration_seconds, estimated_time, recVars>>

\* loading_worker.join(timeout=1.0) returns because the thread has ended
JoinLoaderEnded ==
    /\ pc = "join_loader"
    /\ loader.pc = "done"
    /\ loaderJoin' = "joined"
    /\ pc' = "emit11"
    /\ UNCHANGED <<pending, host, token, devResult, catalog, args, installed, exitCode, stdout,
                   stderr, failure, loading_done, processing_done, loader,
                   loading_progress, progress, progressJoin, duration_seconds,
                   estimated_time, recVars>>

\* loading_worker.join() without a timeout, the thread still alive: it does not
\* return
JoinLoaderTimeout_Unbounded ==
    /\ pc = "join_loader"
    /\ loader.pc # "done"
    /\ UNCHANGED vars

\* loading_worker.join(timeout=1.0) returns after one second, the thread still alive
JoinLoaderTimeout ==
    /\ pc = "join_loader"
    /\ loader.pc # "done"
    /\ loaderJoin' = "timeout"
    /\ pc' = "emit11"
    /\ UNCHANGED <<pending, host, token, devResult, catalog, args, installed, exitCode, stdout,
                   stderr, failure, loading_done, processing_done, loader,
                   loading_progress, progress, progressJoin, duration_seconds,
                   estimated_time, recVars>>

\* emit_progress(11, "Starting separation")
Emit11 ==
    /\ pc = "emit11"
    /\ stdout' = emit_progress(stdout, 11, "Starting separation", "fg")
    /\ pc' = "duration"
    /\ UNCHANGED <<pending, host, token, devResult, catalog, args, installed, exitCode, stderr,
                   failure, loading_done, processing_done, loader, loading_progress,
                   progress, loaderJoin, progressJoin, duration_seconds, estimated_time, recVars>>

IsGpuBackend(b) == b \in {"cuda", "directml", "mps"}

\* estimated_time = duration_seconds * 0.5 on a GPU, * 3.0 on the CPU
EstimatedTime(backend, duration) ==
    IF IsGpuBackend(backend) THEN duration \div 2 ELSE duration * 3

\* sf.info(input_file).duration, or 180 when it raises; then the estimate
ReadDuration ==
    /\ pc = "duration"
    /\ \E d \in Durations \cup {180} :
          /\ duration_seconds' = d
          /\ estimated_time' = EstimatedTime(devResult.backend, d)
          /\ stderr' = stderr \o (IF d = 180 THEN << >> ELSE <<"Audio duration">>)
                              \o <<"Processing with">>
    /\ pc' = "start_progress"
    /\ UNCHANGED <<pending, host, token, devResult, catalog, args, installed, exitCode, stdout,
                   failure, loading_done, processing_done, loader, loading_progress,
                   progress, loaderJoin, progressJoin, recVars>>

\* progress_worker.start() and the "Processing..." log line
StartProgress ==
    /\ pc = "start_progress"
    /\ progress' = [progress EXCEPT !.pc = "check"]
    /\ stderr' = Append(stderr, "Processing...")
    /\ pc' = "separate"
    /\ UNCHANGED <<pending, host, token, devResult, catalog, args, installed, exitCode, stdout,
                   failure, loading_done, processing_done, loader, loading_progress,
                   loaderJoin, progressJoin, duration_seconds, estimated_time, recVars>>

\* the lists of raw output files of the runs explored
RunOutputs ==
    { <<"Vocals.wav", "mix.wav">>, <<"no_vocals.wav">> }

\* separator.separate(input_file) returns the raw output files it wrote
SeparateReturns ==
    /\ pc = "separate"
    /\ \E raws \in RunOutputs :
          /\ output_files' = raws
          /\ fs' = FilesAfterSeparation(output_dir, raws, {})
    /\ pc' = "finally_set"
    /\ UNCHANGED <<pending, host, token, devResult, catalog, args, installed, exitCode, stdout,
                   stderr, failure, loading_done, processing_done, loader,
                   loading_progress, progress, loaderJoin, progressJoin,
                   duration_seconds, estimated_time, output_dir, result, fileOps,
                   fileIdx>>

\* separator.separate(input_file) raises and no finally clause stops the thread
SeparateRaises_NoFinally ==
    /\ pc = "separate"
    /\ Raise("separate")
    /\ UNCHANGED <<pending, host, token, devResult, catalog, args, installed, exitCode, stdout,
                   stderr, loading_done, processing_done, loader, loading_progress,
                   progress, loaderJoin, progressJoin, duration_seconds, estimated_time,
                   recVars>>

\* separator.separate(input_file) raises: the finally clause runs with the
\* exception pending
SeparateRaises ==
    /\ pc = "separate"
    /\ failure' = "separate"
    /\ pc' = "finally_set"
    /\ UNCHANGED <<pending, host, token, devResult, catalog, args, installed, exitCode, stdout,
                   stderr, loading_done, processing_done, loader, loading_progress,
                   progress, loaderJoin, progressJoin, duration_seconds, estimated_time, recVars>>

\* finally: processing_done.set()
SetProcessingDone ==
    /\ pc = "finally_set"
    /\ processing_done' = TRUE
    /\ pc' = "finally_join"
    /\ UNCHANGED <<pending, host, token, devResult, catalog, args, installed, exitCode, stdout,
                   stderr, failure, loading_done, loader, loading_progress, progress,
                   loaderJoin, progressJoin, duration_seconds, estimated_time, recVars>>

\* where the foreground goes when the finally clause is left
AfterFinally == IF failure = "none" THEN "emit92" ELSE "except"

\* finally: progress_worker.join(timeout=1.0) returns because the thread has ended
JoinProgressEnded ==
    /\ pc = "finally_join"
    /\ progress.pc = "done"
    /\ progressJoin' = "joined"
    /\ pc' = AfterFinally
    /\ UNCHANGED <<pending, host, token, devResult, catalog, args, installed, exitCode, stdout,
                   stderr, failure, loading_done, processing_done, loader,
                   loading_progress, progress, loaderJoin, duration_seconds,
                   estimated_time, recVars>>

\* finally: progress_worker.join(timeout=1.0) returns after one second
JoinProgressTimeout ==
    /\ pc = "finally_join"
    /\ progress.pc # "done"
    /\ progressJoin' = "timeout"
    /\ pc' = AfterFinally
    /\ UNCHANGED <<pending, host, token, devResult, catalog, args, installed, exitCode, stdout,
                   stderr, failure, loading_done, processing_done, loader,
                   loading_progress, progress, loaderJoin, duration_seconds,
                   estimated_time, recVars>>

\* "Complete" written together with "Writing stems", ahead of the renaming loop
Emit92_AndComplete ==
    /\ pc = "emit92"
    /\ stdout' = emit_progress(emit_progress(stdout, 92, "Writing stems", "fg"),
                               100, "Complete", "fg")
    /\ stderr' = Append(stderr, "Raw output files")
    /\ pc' = "reconcile"
    /\ UNCHANGED <<pending, host, token, devResult, catalog, args, installed, exitCode, failure,
                   loading_done, processing_done, loader, loading_progress, progress,
                   loaderJoin, progressJoin, duration_seconds, estimated_time, recVars>>

\* emit_progress(92, "Writing stems") and the raw-output log line
Emit92 ==
    /\ pc = "emit92"
    /\ stdout' = emit_progress(stdout, 92, "Writing stems", "fg")
    /\ stderr' = Append(stderr, "Raw output files")
    /\ pc' = "reconcile"
    /\ UNCHANGED <<pending, host, token, devResult, catalog, args, installed, exitCode, failure,
                   loading_done, processing_done, loader, loading_progress, progress,
                   loaderJoin, progressJoin, duration_seconds, estimated_time, recVars>>

\* emit_progress(100, "Complete"); return result
Emit100 ==
    /\ pc = "emit100"
    /\ stdout' = emit_progress(stdout, 100, "Complete", "fg")
    /\ pc' = "print_result"
    /\ UNCHANGED <<pending, host, token, devResult, catalog, args, installed, exitCode, stderr,
                   failure, loading_done, processing_done, loader, loading_progress,
                   progress, loaderJoin, progressJoin, duration_seconds, estimated_time, recVars>>

\* main: print(json.dumps(output_files))
PrintResult ==
    /\ pc = "print_result"
    /\ stdout' = Append(stdout, [kind |-> "RESULT", percent |-> 0, stage |-> "json",
                                 src |-> "fg"])
    /\ pc' = "main_end"
    /\ UNCHANGED <<pending, host, token, devResult, catalog, args, installed, exitCode, stderr,
                   failure, loading_done, processing_done, loader, loading_progress,
                   progress, loaderJoin, progressJoin, duration_seconds, estimated_time,
                   recVars>>

\* main returns and the interpreter exits with 0, ending the daemon threads
MainEnd ==
    /\ pc = "main_end"
    /\ Exit(0)
    /\ UNCHANGED <<pending, host, token, devResult, catalog, args, installed, stdout, stderr,
                   failure, loading_done, processing_done, loader, loading_progress,
                   progress, loaderJoin, progressJoin, duration_seconds, estimated_time,
                   recVars>>

\* main: except Exception: the ERROR line, the traceback, sys.exit(1)
MainExcept ==
    /\ pc = "except"
    /\ stderr' = stderr \o <<"ERROR", "Traceback">>
    /\ Exit(1)
    /\ UNCHANGED <<pending, host, token, devResult, catalog, args, installed, stdout, failure,
                   loading_done, processing_done, loader, loading_progress, progress,
                   loaderJoin, progressJoin, duration_seconds, estimated_time, recVars>>

\* the loop over output_files: one raw output file is matched and renamed; a
\* failed shutil.move raises FileNotFoundError out of separate_stems
ReconcileFile ==
    /\ pc = "reconcile"
    /\ fileIdx <= Len(output_files)
    /\ \E st \in { ReconcileOne([fs |-> fs, result |-> result, ops |-> fileOps,
                                  log |-> << >>, raised |-> FALSE],
                                 output_files[fileIdx]) } :
           /\ fs' = st.fs
           /\ result' = st.result
           /\ fileOps' = st.ops
           /\ stderr' = stderr \o st.log
           /\ IF st.raised
              THEN Raise("move") /\ UNCHANGED fileIdx
              ELSE fileIdx' = fileIdx + 1 /\ UNCHANGED <<pc, failure>>
    /\ UNCHANGED <<pending, host, token, devResult, catalog, args, installed, exitCode, stdout,
                   loading_done, processing_done, loader, loading_progress, progress,
                   loaderJoin, progressJoin, duration_seconds, estimated_time,
                   output_dir, output_files>>

\* the loop over output_files left before it is exhausted
ReconcileEnd_Early ==
    /\ pc = "reconcile"
    /\ pc' = "emit100"
    /\ UNCHANGED <<pending, host, token, devResult, catalog, args, installed, exitCode, stdout,
                   stderr, failure, loading_done, processing_done, loader,
                   loading_progress, progress, loaderJoin, progressJoin,
                   duration_seconds, estimated_time, recVars>>

\* the loop over output_files is exhausted
ReconcileEnd ==
    /\ pc = "reconcile"
    /\ fileIdx > Len(output_files)
    /\ pc' = "emit100"
    /\ UNCHANGED <<pending, host, token, devResult, catalog, args, installed, exitCode, stdout,
                   stderr, failure, loading_done, processing_done, loader,
                   loading_progress, progress, loaderJoin, progressJoin,
                   duration_seconds, estimated_time, recVars>>

(***************************************************************************)
(* The estimator threads (daemon threads: they end with the process)       *)
(***************************************************************************)
\* loading_progress_thread: "while not loading_done.is_set()" sees the event set
LoaderExit ==
    /\ Running
    /\ loader.pc = "check"
    /\ loading_done
    /\ loader' = [loader EXCEPT !.pc = "done"]
    /\ UNCHANGED <<pending, devVars, args, installed, pc, exitCode, stdout, stderr, failure,
                   loading_done, processing_done, loading_progress, progress,
                   loaderJoin, progressJoin, duration_seconds, estimated_time, recVars>>

\* a loading loop whose test does not look at the event
LoaderTick_IgnoresSignal ==
    /\ Running
    /\ loader.pc = "check"
    /\ loader.ticks + progress.ticks < MaxTicks
    /\ \E e \in ElapsedSamples(LoadingTimeConstant, loader.elapsed) :
          /\ loader' = [pc |-> "emit", elapsed |-> e, percent |-> LoadingPercent(e),
                        ticks |-> loader.ticks + 1]
          /\ loading_progress' = LoadingPercent(e)
    /\ UNCHANGED <<pending, devVars, args, installed, pc, exitCode, stdout, stderr, failure,
                   loading_done, processing_done, progress, loaderJoin, progressJoin,
                   duration_seconds, estimated_time, recVars>>

\* loading_progress_thread: the event is not set; the clock is read and percent
\* computed and stored
LoaderTick ==
    /\ Running
    /\ loader.pc = "check"
    /\ ~loading_done
    /\ loader.ticks + progress.ticks < MaxTicks
    /\ \E e \in ElapsedSamples(LoadingTimeConstant, loader.elapsed) :
          /\ loader' = [pc |-> "emit", elapsed |-> e, percent |-> LoadingPercent(e),
                        ticks |-> loader.ticks + 1]
          /\ loading_progress' = LoadingPercent(e)
    /\ UNCHANGED <<pending, devVars, args, installed, pc, exitCode, stdout, stderr, failure,
                   loading_done, processing_done, progress, loaderJoin, progressJoin,
                   duration_seconds, estimated_time, recVars>>

\* loading_progress_thread: emit_progress(percent, ...), then loading_done.wait(0.4)
\* returns
LoaderEmit ==
    /\ Running
    /\ loader.pc = "emit"
    /\ stdout' = emit_progress(stdout, loader.percent, LoadingStage(loader.elapsed),
                               "loading")
    /\ loader' = [loader EXCEPT !.pc = "check"]
    /\ UNCHANGED <<pending, devVars, args, installed, pc, exitCode, stderr, failure,
                   loading_done, processing_done, loading_progress, progress,
                   loaderJoin, progressJoin, duration_seconds, estimated_time, recVars>>

\* progress_thread: "while not processing_done.is_set()" sees the event set
ProgressExit ==
    /\ Running
    /\ progress.pc = "check"
    /\ processing_done
    /\ progress' = [progress EXCEPT !.pc = "done"]
    /\ UNCHANGED <<pending, devVars, args, installed, pc, exitCode, stdout, stderr, failure,
                   loading_done, processing_done, loader, loading_progress,
                   loaderJoin, progressJoin, duration_seconds, estimated_time, recVars>>

\* progress_thread: the event is not set; the clock is read, percent computed and
\* clamped, last_percent updated
ProgressTick ==
    /\ Running
    /\ progress.pc = "check"
    /\ ~processing_done
    /\ loader.ticks + progress.ticks < MaxTicks
    /\ \E e \in ElapsedSamples(estimated_time, progress.elapsed) :
          LET percent == ProcessingPercent(e, estimated_time, progress.last_percent)
          IN  progress' = [pc |-> "emit", elapsed |-> e, percent |-> percent,
                           last_percent |-> percent, ticks |-> progress.ticks + 1]
    /\ UNCHANGED <<pending, devVars, args, installed, pc, exitCode, stdout, stderr, failure,
                   loading_done, processing_done, loader, loading_progress,
                   loaderJoin, progressJoin, duration_seconds, estimated_time, recVars>>

\* progress_thread: emit_progress(percent, ...), then processing_done.wait(0.3)
\* returns
ProgressEmit ==
    /\ Running
    /\ progress.pc = "emit"
    /\ stdout' = emit_progress(stdout, progress.percent, ProcessingStage(progress.percent),
                               "processing")
    /\ progress' = [progress EXCEPT !.pc = "check"]
    /\ UNCHANGED <<pending, devVars, args, installed, pc, exitCode, stderr, failure,
                   loading_done, processing_done, loader, loading_progress,
                   loaderJoin, progressJoin, duration_seconds, estimated_time, recVars>>

Foreground ==
    \/ MainCheck \/ MainListModels \/ MainListDevices \/ MainUsage \/ MainNoInput
    \/ MainCall \/ Setup \/ Emit0 \/ SelectDevice \/ StartLoader \/ Emit1
    \/ SeparatorReturns \/ SeparatorRaises \/ Emit3 \/ LoadModelReturns
    \/ LoadModelRaises \/ SetLoadingDone \/ JoinLoaderEnded \/ JoinLoaderTimeout
    \/ Emit11 \/ ReadDuration \/ StartProgress \/ SeparateReturns \/ SeparateRaises
    \/ SetProcessingDone \/ JoinProgressEnded \/ JoinProgressTimeout \/ Emit92
    \/ ReconcileFile \/ ReconcileEnd \/ Emit100 \/ PrintResult \/ MainEnd \/ MainExcept

LoaderThread == LoaderExit \/ LoaderTick \/ LoaderEmit

ProgressThread == ProgressExit \/ ProgressTick \/ ProgressEmit

Next == Foreground \/ LoaderThread \/ ProgressThread

Spec == Init /\ [][Next]_vars

\* The foreground is the interpreter's main thread: it keeps running, and every
\* call it makes returns or raises (the foreign calls included, and a join within
\* its timeout). Nothing is supposed of the estimator threads: they may stop being
\* scheduled at any point.
SpecForeground == Init /\ [][Next]_vars /\ WF_vars(Foreground)

\* The estimator threads are scheduled fairly: a thread that can take a step is
\* not passed over for ever (the interpreter hands the lock round its threads).
\* Nothing is supposed of the foreground.
SpecThreads == Init /\ [][Next]_vars /\ WF_vars(LoaderThread) /\ WF_vars(ProgressThread)

(***************************************************************************)
(* The resolver run on every host and token                                *)
(***************************************************************************)
\* a plain command line before main has acted, with token as its --device, on
\* machine h
DeviceStart(h, t) ==
    /\ token = t
    /\ host = h
    /\ devResult = NoResult
    /\ catalog = << >>
    /\ args = PlainArgs
    /\ installed = TRUE
    /\ RunIdle
    /\ RecIdle

InitDevice == \E t \in Tokens, h \in Hosts : DeviceStart(h, t)

\* the machines of the CUDA branch (source 117-122): at least one CUDA GPU and
\* no torch_directml
CudaHosts == { h \in Hosts : h.cuda_count > 0 /\ ~h.dml_installed }

InitDeviceCuda == \E t \in Tokens, h \in CudaHosts : DeviceStart(h, t)

\* detect_available_devices() is called (--list-devices, check_installation)
ListDevices ==
    /\ catalog = << >>
    /\ catalog' = detect_available_devices(host)
    /\ UNCHANGED <<host, token, devResult, runVars, recVars>>

\* parse_device_string(device) is called
ResolveDevice ==
    /\ devResult = NoResult
    /\ devResult' = parse_device_string(host, token)
    /\ stderr' = stderr \o parse_device_string(host, token).warnings
    /\ UNCHANGED <<pending, host, token, catalog, args, installed, pc, exitCode, stdout, failure,
                   loading_done, processing_done, loader, loading_progress, progress,
                   loaderJoin, progressJoin, duration_seconds, estimated_time, recVars>>

NextDevice == ListDevices \/ ResolveDevice

SpecDevice == InitDevice /\ [][NextDevice]_vars

\* the resolver on the CUDA machines
SpecDeviceCuda == InitDeviceCuda /\ [][NextDevice]_vars

(***************************************************************************)
(* The reconciler run on every list of raw output files                    *)
(***************************************************************************)
\* a plain run on the CUDA machine, with output directory dir, that has just
\* emitted checkpoint 92, the estimators having ended without a tick, with raw
\* output files raws and the files old left by an earlier run
AtReconcile(dir, raws, old) ==
    /\ host = CudaHost
    /\ token = "auto"
    /\ devResult = parse_device_string(CudaHost, "auto")
    /\ catalog = << >>
    /\ args = PlainArgs
    /\ installed = TRUE
    /\ pc = "reconcile"
    /\ exitCode = NoExit
    /\ stdout = [i \in 1..5 |->
                    [kind |-> "PROGRESS", percent |-> <<0, 1, 3, 11, 92>>[i],
                     stage |-> <<"Initializing", "Initializing", "Loading AI model",
                                 "Starting separation", "Writing stems">>[i],
                     src |-> "fg"]]
    /\ pending = << >>
    /\ stderr = <<"Loading model", "Input", "Output", "Requested device", "Using device",
                  "Processing with", "Processing...", "Raw output files">>
    /\ failure = "none"
    /\ loading_done = TRUE
    /\ processing_done = TRUE
    /\ loader = [IdleLoader EXCEPT !.pc = "done"]
    /\ loading_progress = 0
    /\ progress = [IdleProgress EXCEPT !.pc = "done"]
    /\ loaderJoin = "joined"
    /\ progressJoin = "joined"
    /\ duration_seconds = 180
    /\ estimated_time = 90
    /\ output_dir = dir
    /\ output_files = raws
    /\ fs = FilesAfterSeparation(dir, raws, old)
    /\ result = EmptyMap
    /\ fileOps = << >>
    /\ fileIdx = 1

\* the reconciler on every list of raw output files, with and without files left by
\* an earlier run, for an absolute and for a relative output directory
InitReconcile ==
    \E dir \in OutputDirs :
        \E raws \in RawLists(dir, RawNames, MaxFiles), old \in OldFiles :
            AtReconcile(dir, raws, old)

NextReconcile == ReconcileFile \/ ReconcileEnd

SpecReconcile == InitReconcile /\ [][NextReconcile]_vars

(***************************************************************************)
(* The processing estimator about to write a line, for every percent        *)
(***************************************************************************)
\* a run inside separator.separate (line 337) on an input of duration 0, where the
\* fallback int(12 + elapsed * 2) takes every value from 12 to 88: the processing
\* thread has computed percent and is about to call emit_progress (line 326);
\* elapsed is in whole seconds
InitEta ==
    \E percent \in 12..88 :
        /\ host = CudaHost
        /\ token = "auto"
        /\ devResult = parse_device_string(CudaHost, "auto")
        /\ catalog = << >>
        /\ args = PlainArgs
        /\ installed = TRUE
        /\ pc = "separate"
        /\ exitCode = NoExit
        /\ stdout = [i \in 1..4 |->
                        [kind |-> "PROGRESS", percent |-> <<0, 1, 3, 11>>[i],
                         stage |-> <<"Initializing", "Initializing", "Loading AI model",
                                     "Starting separation">>[i],
                         src |-> "fg"]]
        /\ pending = << >>
        /\ stderr = <<"Loading model", "Input", "Output", "Requested device", "Using device",
                      "Processing with", "Processing...">>
        /\ failure = "none"
        /\ loading_done = TRUE
        /\ processing_done = FALSE
        /\ loader = [IdleLoader EXCEPT !.pc = "done"]
        /\ loading_progress = 0
        /\ progress = [pc |-> "emit", elapsed |-> (percent - 12) \div 2, percent |-> percent,
                       last_percent |-> percent, ticks |-> 1]
        /\ loaderJoin = "joined"
        /\ progressJoin = "none"
        /\ duration_seconds = 0
        /\ estimated_time = 0
        /\ RecIdle

SpecEta == InitEta /\ [][ProgressEmit]_vars

(***************************************************************************)
(* emit_progress step by step: sys.stdout.write, then sys.stdout.flush,    *)
(* called by the foreground and by the loading estimator side by side      *)
(***************************************************************************)
\* the line one emit_progress call writes
Line(percent, stage, src) ==
    [kind |-> "PROGRESS", percent |-> percent, stage |-> stage, src |-> src]

\* one call that writes the line without its newline and then the newline, as
\* print does
WriteCalls_LikePrint(line) ==
    << [line EXCEPT !.kind = "PARTIAL"], [line EXCEPT !.kind = "NEWLINE"] >>

\* the sys.stdout.write calls of one emit_progress call: a single one, with the
\* whole line and its newline
WriteCalls(line) == << line >>

\* sys.stdout.flush(): everything written so far is handed on, in order
Flush(out, pend) == out \o pend

\* the foreground's emit_progress calls made while the loading estimator runs
FgLine ==
    IF pc \in {"emit1", "emit1_rest"} THEN Line(1, "Initializing", "fg")
    ELSE Line(3, "Loading AI model", "fg")

\* a run that has just started the loading thread (line 241)
InitEmit ==
    /\ host = CudaHost
    /\ token = "auto"
    /\ devResult = parse_device_string(CudaHost, "auto")
    /\ catalog = << >>
    /\ args = PlainArgs
    /\ installed = TRUE
    /\ pc = "emit1"
    /\ exitCode = NoExit
    /\ stdout = << Line(0, "Initializing", "fg") >>
    /\ pending = << >>
    /\ stderr = <<"Loading model", "Input", "Output", "Requested device", "Using device">>
    /\ failure = "none"
    /\ loading_done = FALSE
    /\ processing_done = FALSE
    /\ loader = [IdleLoader EXCEPT !.pc = "check"]
    /\ loading_progress = 0
    /\ progress = IdleProgress
    /\ loaderJoin = "none"
    /\ progressJoin = "none"
    /\ duration_seconds = 0
    /\ estimated_time = 0
    /\ RecIdle

\* foreground, emit_progress: one sys.stdout.write call
FgWrite ==
    /\ pc \in {"emit1", "emit1_rest", "emit3", "emit3_rest"}
    /\ LET calls == WriteCalls(FgLine)
           k     == IF pc \in {"emit1", "emit3"} THEN 1 ELSE 2
           call  == IF pc \in {"emit1", "emit1_rest"} THEN "emit1" ELSE "emit3"
       IN  /\ pending' = Append(pending, calls[k])
           /\ pc' = IF k = Len(calls) THEN call \o "_flush" ELSE call \o "_rest"
    /\ UNCHANGED <<devVars, args, installed, exitCode, stdout, stderr, failure,
                   loading_done, processing_done, loader, loading_progress, progress,
                   loaderJoin, progressJoin, duration_seconds, estimated_time, recVars>>

\* foreground, emit_progress: sys.stdout.flush(), and the call returns
FgFlush ==
    /\ pc \in {"emit1_flush", "emit3_flush"}
    /\ stdout' = Flush(stdout, pending)
    /\ pending' = << >>
    /\ pc' = IF pc = "emit1_flush" THEN "Separator" ELSE "load_model"
    /\ UNCHANGED <<devVars, args, installed, exitCode, stderr, failure,
                   loading_done, processing_done, loader, loading_progress, progress,
                   loaderJoin, progressJoin, duration_seconds, estimated_time, recVars>>

\* loading_progress_thread, emit_progress: one sys.stdout.write call
LoaderWrite ==
    /\ loader.pc \in {"emit", "emit_rest"}
    /\ LET calls == WriteCalls(Line(loader.percent, LoadingStage(loader.elapsed), "loading"))
           k     == IF loader.pc = "emit" THEN 1 ELSE 2
       IN  /\ pending' = Append(pending, calls[k])
           /\ loader' = [loader EXCEPT !.pc = IF k = Len(calls) THEN "flush" ELSE "emit_rest"]
    /\ UNCHANGED <<devVars, args, installed, pc, exitCode, stdout, stderr, failure,
                   loading_done, processing_done, loading_progress, progress,
                   loaderJoin, progressJoin, duration_seconds, estimated_time, recVars>>

\* loading_progress_thread, emit_progress: sys.stdout.flush(); then
\* loading_done.wait(0.4) returns
LoaderFlush ==
    /\ loader.pc = "flush"
    /\ stdout' = Flush(stdout, pending)
    /\ pending' = << >>
    /\ loader' = [loader EXCEPT !.pc = "check"]
    /\ UNCHANGED <<devVars, args, installed, pc, exitCode, stderr, failure,
                   loading_done, processing_done, loading_progress, progress,
                   loaderJoin, progressJoin, duration_seconds, estimated_time, recVars>>

NextEmit ==
    \/ FgWrite \/ FgFlush \/ SeparatorReturns \/ LoadModelReturns \/ SetLoadingDone
    \/ LoaderTick \/ LoaderWrite \/ LoaderFlush \/ LoaderExit

SpecEmit == InitEmit /\ [][NextEmit]_vars

(***************************************************************************)
(* The legacy entry point (legacy/Source/AI/demucs_process.py): main       *)
(***************************************************************************)
\* the estimators' variables, which the legacy script does not have
estVars == <<loading_done, processing_done, loader, loading_progress, progress,
             loaderJoin, progressJoin, duration_seconds, estimated_time>>

\* the legacy command lines: --check, the two positional arguments, and whether the
\* input file exists
LegacyArgs ==
    { a \in ArgSets :
        /\ ~a.list_models /\ ~a.list_devices /\ ~a.gpu_set /\ a.gpu_id = 0
        /\ (a.input_exists => a.input) }

\* --device of the legacy script: choices=["cuda", "cpu"]
LegacyDevices == {"cuda", "cpu"}

\* the stems the Demucs model yields (model.sources)
LegacySources == <<"drums", "bass", "other", "vocals">>

Text(line) == [kind |-> "TEXT", percent |-> 0, stage |-> line, src |-> "fg"]

\* the legacy script started with any command line, with and without its
\* dependencies, with and without a CUDA device
InitLegacy ==
    /\ \E a \in LegacyArgs, h \in {CpuHost, CudaHost}, t \in LegacyDevices, i \in BOOLEAN :
          /\ args = a
          /\ host = h
          /\ token = t
          /\ installed = i
    /\ devResult = NoResult
    /\ catalog = << >>
    /\ RunIdle
    /\ RecIdle

\* main, --check: check_dependencies, then the versions on standard output
LegacyMainCheck ==
    /\ pc = "main" /\ args.check
    /\ IF installed
       THEN /\ stdout' = stdout \o <<Text("All dependencies OK!"), Text("PyTorch"),
                                     Text("CUDA available")>>
                                \o (IF cuda_is_available(host) THEN <<Text("GPU")>>
                                    ELSE << >>)
            /\ Exit(0)
            /\ UNCHANGED stderr
       ELSE /\ stderr' = stderr \o <<"ERROR: Missing dependencies", "Install with">>
            /\ Exit(1)
            /\ UNCHANGED stdout
    /\ UNCHANGED <<pending, devVars, args, installed, failure, estVars, recVars>>

\* main: check_dependencies fails before processing
LegacyMainDependencies ==
    /\ pc = "main" /\ ~args.check
    /\ ~installed
    /\ stderr' = stderr \o <<"ERROR: Missing dependencies", "Install with">>
    /\ Exit(1)
    /\ UNCHANGED <<pending, devVars, args, installed, stdout, failure, estVars, recVars>>

\* main: a positional argument is missing; parser.error prints the usage and the
\* message to standard error and exits with status 2
LegacyMainUsage ==
    /\ pc = "main" /\ ~args.check
    /\ installed
    /\ ~args.input \/ ~args.output_dir
    /\ stderr' = stderr \o <<"usage", "error: input and output_dir are required">>
    /\ Exit(2)
    /\ UNCHANGED <<pending, devVars, args, installed, stdout, failure, estVars, recVars>>

\* main: the input file does not exist
LegacyMainNoInput ==
    /\ pc = "main" /\ ~args.check
    /\ installed
    /\ args.input /\ args.output_dir /\ ~args.input_exists
    /\ stderr' = Append(stderr, "ERROR: Input file not found")
    /\ Exit(1)
    /\ UNCHANGED <<pending, devVars, args, installed, stdout, failure, estVars, recVars>>

\* main calls separate_stems
LegacyMainCall ==
    /\ pc = "main" /\ ~args.check
    /\ installed
    /\ args.input /\ args.output_dir /\ args.input_exists
    /\ pc' = "legacy_device"
    /\ UNCHANGED <<pending, devVars, args, installed, exitCode, stdout, stderr, failure,
                   estVars, recVars>>

\* separate_stems: "cuda" falls back to "cpu" when CUDA is not available
LegacyDevice ==
    /\ pc = "legacy_device"
    /\ IF token = "cuda" /\ ~cuda_is_available(host)
       THEN /\ token' = "cpu"
            /\ stderr' = Append(stderr, "CUDA not available, falling back to CPU")
       ELSE UNCHANGED <<token, stderr>>
    /\ pc' = "legacy_separate"
    /\ UNCHANGED <<pending, host, devResult, catalog, args, installed, exitCode, stdout, failure,
                   estVars, recVars>>

\* separate_stems: the model is loaded and applied, and each stem written to
\* <output_dir>/<name>.wav
LegacySeparateReturns ==
    /\ pc = "legacy_separate"
    /\ result' = [k \in Range(LegacySources) |-> PathJoin(output_dir, k \o ".wav")]
    /\ fs' = [q \in { RealPath(PathJoin(output_dir, k \o ".wav")) : k \in Range(LegacySources) }
                |-> "stem " \o q]
    /\ stderr' = stderr \o <<"Loading model", "Loading audio", "Processing on">>
                        \o [i \in DOMAIN LegacySources |-> "Saved"]
    /\ pc' = "print_result"
    /\ UNCHANGED <<pending, devVars, args, installed, exitCode, stdout, failure, estVars,
                   output_dir, output_files, fileOps, fileIdx>>

\* separate_stems: an import, get_model, sf.read, apply_model or sf.write raises
LegacySeparateRaises ==
    /\ pc = "legacy_separate"
    /\ Raise("separate")
    /\ stderr' = Append(stderr, "Loading model")
    /\ UNCHANGED <<pending, devVars, args, installed, exitCode, stdout, estVars, recVars>>

\* main: print(json.dumps(output_files))
LegacyPrintResult == PrintResult

\* main returns and the interpreter exits with 0
LegacyMainEnd == MainEnd

\* main: except Exception: the ERROR line, the traceback, sys.exit(1)
LegacyMainExcept == MainExcept

NextLegacy ==
    \/ LegacyMainCheck \/ LegacyMainDependencies \/ LegacyMainUsage \/ LegacyMainNoInput
    \/ LegacyMainCall \/ LegacyDevice \/ LegacySeparateReturns \/ LegacySeparateRaises
    \/ LegacyPrintResult \/ LegacyMainEnd \/ LegacyMainExcept

SpecLegacy == InitLegacy /\ [][NextLegacy]_vars

(***************************************************************************)
(* Properties                                                              *)
(***************************************************************************)
\* the PROGRESS lines of standard output, as positions of stdout
ProgressLines == { i \in DOMAIN stdout : stdout[i].kind = "PROGRESS" }

\* a thread that was started and has not ended, in a process that still runs
Alive(thread) == Running /\ thread.pc \notin {"idle", "done"}

\* C1: over one run the percent values of all PROGRESS lines on standard output,
\* in emission order, never decrease
C1_PercentNonDecreasing ==
    \A i, j \in ProgressLines : i < j => stdout[i].percent <= stdout[j].percent

\* C2: when Separator(...) or load_model raises, the loading estimator has been
\* signalled to stop and joined by the time control has left separate_stems for
\* main's handler
C2_LoaderStoppedOnLoadFailure ==
    (pc = "except" /\ failure \in {"Separator", "load_model"})
        => (loading_done /\ loaderJoin # "none")

\* C3: when separator.separate raises, the processing estimator's stop signal is
\* set and the estimator joined (the join returning because the thread ended or
\* because its second ran out) before the exception reaches main's handler; the
\* process then ends with an ERROR line on standard error and exit code 1, without
\* a result line
C3_SeparateFailureStopsEstimator ==
    /\ (failure = "separate" /\ pc \in {"except", "exited"})
          => /\ processing_done
             /\ progressJoin \in {"joined", "timeout"}
             /\ (progressJoin = "joined" => progress.pc = "done")
    /\ (failure = "separate" /\ pc = "exited")
          => /\ exitCode = 1
             /\ \E i \in DOMAIN stderr : stderr[i] = "ERROR"
             /\ \A i \in DOMAIN stdout : stdout[i].kind # "RESULT"

\* C3, its case: a run in which separate raised while the processing estimator was
\* ticking has ended
C3_Witness ==
    /\ pc = "exited"
    /\ failure = "separate"
    /\ progress.ticks > 0
    /\ exitCode = 1

\* C4: at no time are both estimator threads alive
C4_AtMostOneEstimatorAlive == ~(Alive(loader) /\ Alive(progress))

\* C5: after the foreground's 11 no PROGRESS line below 11 follows, after its 92 no
\* PROGRESS line below 92 follows, and no estimator emits above its ceiling (10 for
\* loading, 88 for processing)
C5_CheckpointsAreBarriers ==
    /\ \A i, j \in ProgressLines :
          (i < j /\ stdout[i].src = "fg" /\ stdout[i].percent \in {11, 92})
              => stdout[j].percent >= stdout[i].percent
    /\ \A i \in ProgressLines :
          /\ stdout[i].src = "loading" => stdout[i].percent <= 10
          /\ stdout[i].src = "processing" => stdout[i].percent <= 88

\* the device string as parse_device_string compares it
Normalized(t) == StrStrip(StrLower(t))

Resolved == devResult # NoResult

KindPrefixes == {"cuda", "directml", "mps"}

HasKind(s, kind) == StartsWith(s, kind)

\* the catalog entry of index 0 of a kind
IndexZero(kind) == IF kind = "mps" THEN "mps" ELSE kind \o ":0"

InCatalog(h, id) == id \in Range(detect_available_devices(h))

\* C6: parse_device_string never raises, and for a token that is not in the catalog
\* it returns a device of the catalog, the CPU only when the catalog has no device
\* of the token's kind at index 0
C6_ResolveNeverFailsAndStaysInCatalog ==
    Resolved =>
        /\ ~devResult.raised
        /\ ~InCatalog(host, Normalized(token)) =>
              /\ InCatalog(host, DeviceString(devResult.device))
              /\ \A kind \in KindPrefixes :
                    (HasKind(Normalized(token), kind) /\ InCatalog(host, IndexZero(kind)))
                        => devResult.device.type # "cpu"

\* a token "<kind>:<digits>" that names no catalog entry
IndexOutOfRange(h, s) ==
    /\ \E kind \in {"cuda", "directml"} :
          /\ StartsWith(s, kind \o ":")
          /\ AllDigits(SubSeq(s, Len(kind) + 2, Len(s)))
    /\ ~InCatalog(h, s)

\* C7: a token of a recognized kind whose index is out of range resolves to index 0
\* of that kind when the catalog has it and to the CPU otherwise, with a warning and
\* without an exception
C7_OutOfRangeFallsBackToIndexZero ==
    (Resolved /\ IndexOutOfRange(host, Normalized(token))) =>
        LET kind == CHOOSE k \in {"cuda", "directml"} : HasKind(Normalized(token), k)
        IN  /\ ~devResult.raised
            /\ DeviceString(devResult.device) =
                  (IF InCatalog(host, IndexZero(kind)) THEN IndexZero(kind) ELSE "cpu")
            /\ Len(devResult.warnings) > 0

\* the first GPU entry of a catalog, "cpu" when it has none
FirstGpu(entries) ==
    IF \E i \in DOMAIN entries : entries[i] # "cpu"
    THEN entries[CHOOSE i \in DOMAIN entries :
                    /\ entries[i] # "cpu"
                    /\ \A j \in 1..(i - 1) : entries[j] = "cpu"]
    ELSE "cpu"

\* C8: "auto" resolves to the first GPU entry of the catalog
\* detect_available_devices builds on the same host, and to the CPU when the
\* catalog has no GPU entry
C8_AutoPicksFirstCatalogGpu ==
    (Resolved /\ Normalized(token) = "auto") =>
        /\ ~devResult.raised
        /\ DeviceString(devResult.device) = FirstGpu(detect_available_devices(host))

HasWarning(lines) == \E i \in DOMAIN lines : StartsWith(lines[i], "WARNING")

\* a token that is neither "auto" nor "cpu" nor starts with the name of a kind
UnrecognizedToken(s) ==
    /\ s \notin {"auto", "cpu"}
    /\ \A kind \in KindPrefixes : ~HasKind(s, kind)

\* C9: "cpu" (in any case, with surrounding blanks) resolves to the CPU device; a
\* token that is not "auto", not "cpu" and of no recognized kind resolves to the
\* CPU device and a warning is written to standard error
C9_CpuAndUnknownResolveToCpu ==
    Resolved =>
        /\ Normalized(token) = "cpu" =>
              /\ ~devResult.raised
              /\ devResult.device = CpuDevice
              /\ devResult.backend = "cpu"
        /\ UnrecognizedToken(Normalized(token)) =>
              /\ ~devResult.raised
              /\ devResult.device = CpuDevice
              /\ devResult.backend = "cpu"
              /\ HasWarning(stderr)

\* C9, its case: the unknown token "gpu" was resolved on a machine with a CUDA
\* device
C9_Witness ==
    /\ Resolved
    /\ token = "gpu"
    /\ cuda_is_available(host)
    /\ devResult.device = CpuDevice
    /\ HasWarning(stderr)

\* the stems whose rule a raw output file matches
MatchingStems(raw) ==
    { k \in DOMAIN StemNames : StemMatches(StemNames[k], StrLower(PathStem(OutputFile(raw)))) }

\* the first stem, in priority order, whose rule matches
FirstStem(raw) ==
    StemNames[CHOOSE k \in MatchingStems(raw) : \A m \in MatchingStems(raw) : k <= m]

MovesOf(raw) ==
    { n \in DOMAIN fileOps : fileOps[n].op = "move" /\ fileOps[n].src = OutputFile(raw) }

\* C10: every raw output file handled so far that matches some rule was renamed
\* without error to <stem>.wav of the first stem it matches, by at most one move,
\* and the mapping has exactly the first stems of the files handled
C10_FirstMatchingStemWins ==
    /\ failure # "move"
    /\ \A i \in 1..(fileIdx - 1) :
          MatchingStems(output_files[i]) # {} =>
              /\ Cardinality(MovesOf(output_files[i])) <= 1
              /\ \A n \in MovesOf(output_files[i]) :
                    fileOps[n].dst = PathJoin(output_dir, FirstStem(output_files[i]) \o ".wav")
    /\ DOMAIN result =
          { FirstStem(output_files[i]) :
              i \in { m \in 1..(fileIdx - 1) : MatchingStems(output_files[m]) # {} } }

\* the move operations done so far, in order
Moves == SelectSeq(fileOps, LAMBDA o : o.op = "move")

\* C11: with the raw outputs ["Vocals.flac", "no_vocals.flac"] the reconciliation
\* raises no error, and once the loop is over the mapping is exactly
\* {vocals: /out/vocals.wav, other: /out/other.wav}, the Vocals file having been
\* moved to vocals.wav and the no_vocals file to other.wav
C11_VocalsAndNoVocals ==
    output_files = <<"Vocals.flac", "no_vocals.flac">> =>
        /\ failure # "move"
        /\ (pc = "reconcile" /\ fileIdx > Len(output_files)) =>
              /\ result = [k \in {"vocals", "other"} |-> PathJoin(output_dir, k \o ".wav")]
              /\ Moves = << [op |-> "move", src |-> OutputFile("Vocals.flac"),
                             dst |-> PathJoin(output_dir, "vocals.wav")],
                            [op |-> "move", src |-> OutputFile("no_vocals.flac"),
                             dst |-> PathJoin(output_dir, "other.wav")] >>
              /\ fs[AbsPath("vocals.wav")] = "raw " \o AbsPath("Vocals.flac")
              /\ fs[AbsPath("other.wav")] = "raw " \o AbsPath("no_vocals.flac")

\* the canonical file of a stem in the output directory
CanonicalFile(stem_name) == RealPath(PathJoin(output_dir, stem_name \o ".wav"))

\* a raw output that already is the canonical file of some stem
IsCanonical(raw) == \E k \in DOMAIN StemNames : AbsPath(raw) = CanonicalFile(StemNames[k])

CanonicalStem(raw) ==
    StemNames[CHOOSE k \in DOMAIN StemNames : AbsPath(raw) = CanonicalFile(StemNames[k])]

\* C12: when every raw output already is a canonical file of the output directory,
\* given relative to it or as an absolute path, the loop raises no error, removes and
\* moves no file, and maps the stem of each file handled so far to that file
C12_CanonicalNamesAreKept ==
    (\A i \in DOMAIN output_files : IsCanonical(output_files[i])) =>
        /\ failure # "move"
        /\ fileOps = << >>
        /\ DOMAIN result = { CanonicalStem(output_files[i]) : i \in 1..(fileIdx - 1) }
        /\ \A k \in DOMAIN result : RealPath(result[k]) = CanonicalFile(k)

\* the result lines of standard output, as positions of stdout
ResultLines == { i \in DOMAIN stdout : stdout[i].kind = "RESULT" }

\* a run that went through separate_stems and ended with exit code 0
Succeeded == pc = "exited" /\ exitCode = 0 /\ NoEarlyExit

\* C13: a successful run has written exactly one result line; a result line comes
\* after the PROGRESS line with percent 100; and no PROGRESS line follows the 100
\* line or the result line
C13_OneResultLineLast ==
    /\ Cardinality(ResultLines) <= 1
    /\ Succeeded => Cardinality(ResultLines) = 1
    /\ \A i \in ResultLines :
          \E j \in ProgressLines : j < i /\ stdout[j].percent = 100
    /\ \A i \in DOMAIN stdout :
          (stdout[i].kind = "RESULT" \/ (i \in ProgressLines /\ stdout[i].percent = 100))
              => \A j \in ProgressLines : j <= i

\* the PROGRESS lines one estimator wrote, as positions of stdout
LinesOf(src) == { i \in ProgressLines : stdout[i].src = src }

\* C14: the percent values written by the loading estimator, in order, never
\* decrease, and neither do those written by the processing estimator, the clock
\* readings of each being non-decreasing
C14_EachEstimatorNonDecreasing ==
    \A src \in {"loading", "processing"} :
        \A i, j \in LinesOf(src) : i < j => stdout[i].percent <= stdout[j].percent

\* C14, its case: the loading estimator, which keeps no last value, has written two
\* lines, the second with a later clock reading and a higher percent
C14_Witness ==
    \E i, j \in LinesOf("loading") :
        /\ i < j
        /\ stdout[i].percent < stdout[j].percent
        /\ loader.ticks = 2

PreflightFails(a, inst) ==
    IF a.check THEN ~inst
    ELSE IF a.list_models THEN FALSE
    ELSE IF a.list_devices THEN ~inst
    ELSE ~a.input \/ ~a.output_dir \/ ~a.input_exists \/ ~inst

\* C16: when a pre-flight check fails no PROGRESS line is ever written to standard
\* output, and the process exits with a non-zero code
C16_NoProgressOnPreflightFailure ==
    PreflightFails(args, installed) =>
        /\ ProgressLines = {}
        /\ pc \notin {"emit0", "device", "print_result", "main_end"}
        /\ pc = "exited" => exitCode \notin {0, NoExit}

\* C16, its case: a plain command line on a machine where audio_separator cannot be
\* imported has ended
C16_Witness ==
    /\ pc = "exited"
    /\ args = PlainArgs
    /\ ~installed
    /\ failure = "import"
    /\ exitCode = 1

\* a run that did what its command line asked: --check found the libraries, the
\* models or the devices were listed, or the result line was written
RunSucceeded ==
    IF args.check THEN installed
    ELSE IF args.list_models THEN TRUE
    ELSE IF args.list_devices THEN installed
    ELSE ResultLines # {}

\* C17: a process that has ended has exit code 0 when its run succeeded and exit
\* code 1 when it did not (an exception from separate_stems, a missing input file,
\* a missing positional argument, a failed --check), from either entry point
C17_ExitCodeZeroOrOne ==
    pc = "exited" => exitCode = (IF RunSucceeded THEN 0 ELSE 1)

\* everything written to sys.stdout so far, flushed or not, in order
Written == stdout \o pending

\* the emit_progress calls the foreground has finished writing
FgCallsWritten ==
    CASE pc \in {"emit1", "emit1_rest"} -> 0
      [] pc \in {"emit1_flush", "Separator", "emit3", "emit3_rest"} -> 1
      [] OTHER -> 2

\* the emit_progress calls the loading thread has finished writing
LoaderCallsWritten ==
    IF loader.pc \in {"emit", "emit_rest"} THEN loader.ticks - 1 ELSE loader.ticks

\* a piece of output that ends a line
EndsLine(c) == c.kind \in {"PROGRESS", "NEWLINE"}

ErrorReported == \E i \in DOMAIN stderr : stderr[i] = "ERROR"

\* C19: the foreground always gets past loading_worker.join and past
\* progress_worker.join, whether or not the estimator has ended, and the process
\* always eventually exits, its result or its error written, the estimators being
\* free never to run again
C19_ForegroundAlwaysExits ==
    /\ (pc \in {"join_loader", "finally_join"}) ~> (pc \in {"emit11", "emit92", "except"})
    /\ <>(pc = "exited" /\ (loader.pc # "idle" => ResultLines # {} \/ ErrorReported))

\* C19, its case: a run has exited with its result written although both joins
\* timed out and neither estimator thread ever ended
C19_Witness ==
    /\ pc = "exited"
    /\ exitCode = 0
    /\ ResultLines # {}
    /\ loaderJoin = "timeout" /\ loader.pc # "done"
    /\ progressJoin = "timeout" /\ progress.pc # "done"

\* the fixed checkpoints of separate_stems
Checkpoints == <<0, 1, 3, 11, 92, 100>>

\* the percent values of the PROGRESS lines the foreground has written, in order
FgPercents ==
    LET lines == SelectSeq(stdout, LAMBDA l : l.kind = "PROGRESS" /\ l.src = "fg")
    IN  [i \in DOMAIN lines |-> lines[i].percent]

\* C20: the foreground writes the checkpoints 0, 1, 3, 11, 92, 100 in this order,
\* each at most once, and all of them on a successful run; 0 is the first PROGRESS
\* line and is written before an estimator is started; 11 is written only after
\* load_model has returned, 92 only after separate has returned, and 100 only after
\* the renaming loop has gone through every output file
C20_CheckpointsInOrder ==
    /\ Len(FgPercents) <= Len(Checkpoints)
    /\ FgPercents = SubSeq(Checkpoints, 1, Len(FgPercents))
    /\ Succeeded => FgPercents = Checkpoints
    /\ \A i \in ProgressLines :
          (\A j \in ProgressLines : i <= j) => stdout[i].src = "fg" /\ stdout[i].percent = 0
    /\ (loader.pc # "idle" \/ progress.pc # "idle") => Len(FgPercents) >= 1
    /\ Len(FgPercents) >= 4 => loading_done /\ failure \notin {"Separator", "load_model"}
    /\ Len(FgPercents) >= 5 => processing_done /\ output_files # << >>
    /\ Len(FgPercents) >= 6 => fileIdx > Len(output_files)

\* C20, its case: a run has succeeded with both estimators' lines among the
\* checkpoints
C20_Witness ==
    /\ Succeeded
    /\ FgPercents = Checkpoints
    /\ LinesOf("loading") # {}
    /\ LinesOf("processing") # {}

\* the operations done so far that read or write the file a raw output names
OpsOn(raw) ==
    { n \in DOMAIN fileOps :
        RealPath(fileOps[n].src) = AbsPath(raw) \/ RealPath(fileOps[n].dst) = AbsPath(raw) }

\* C21: a raw output file whose name matches no pattern of any stem stays where it
\* is, with its own audio: no operation touches it, no key of the mapping names it,
\* and it is not the file at which the loop raises; and the keys of the mapping are
\* among vocals, drums, bass, other, guitar, piano
C21_UnmatchedLeftOut ==
    /\ \A i \in DOMAIN output_files :
          MatchingStems(output_files[i]) = {} =>
              /\ AbsPath(output_files[i]) \in DOMAIN fs
              /\ fs[AbsPath(output_files[i])] = "raw " \o AbsPath(output_files[i])
              /\ OpsOn(output_files[i]) = {}
              /\ \A k \in DOMAIN result : RealPath(result[k]) # AbsPath(output_files[i])
              /\ failure = "move" => fileIdx # i
    /\ DOMAIN result \subseteq { StemNames[k] : k \in DOMAIN StemNames }

\* C21, its case: the loop is over, it went through a file that matches no pattern
\* and through one that was moved onto a file an earlier run had left
C21_Witness ==
    /\ pc = "reconcile"
    /\ fileIdx > Len(output_files)
    /\ \E i \in DOMAIN output_files : MatchingStems(output_files[i]) = {}
    /\ \E n \in DOMAIN fileOps : fileOps[n].op = "remove"
    /\ Moves # << >>
    /\ result # EmptyMap

\* what a step may do to a thread whose event is set: the event stays set; a thread
\* that has seen it at its loop test starts no tick; and a line is written only by
\* the tick that was under way, which leaves the thread at its loop test
AfterSignal(done, thread, src) ==
    done =>
        /\ done'
        /\ thread.pc = "check" => thread'.pc \in {"check", "done"}
        /\ thread.pc = "done" => thread'.pc = "done"
        /\ Cardinality(LinesOf(src)') > Cardinality(LinesOf(src)) =>
              /\ thread.pc = "emit" /\ thread'.pc = "check"
              /\ Cardinality(LinesOf(src)') = Cardinality(LinesOf(src)) + 1

\* C22: once loading_done (processing_done) is set, the loading (processing) thread
\* writes at most one more PROGRESS line, that of a tick already past the loop test,
\* and starts no tick after it has seen the event; scheduled fairly, it leaves its
\* loop, unless the process has ended by then and the daemon thread with it
C22_EstimatorStopsAfterSignal ==
    /\ [][AfterSignal(loading_done, loader, "loading")]_vars
    /\ [][AfterSignal(processing_done, progress, "processing")]_vars
    /\ (loading_done /\ loader.pc # "idle") ~> (loader.pc = "done" \/ pc = "exited")
    /\ (processing_done /\ progress.pc # "idle") ~> (progress.pc = "done" \/ pc = "exited")

\* C22, its case: both threads have left their loops in a running process, each
\* after a line written once its event was set (the foreground's checkpoints 11 and
\* 92 follow the event, and an estimator line follows each of them)
C22_Witness ==
    /\ Running
    /\ loader.pc = "done" /\ progress.pc = "done"
    /\ \E i, j \in DOMAIN stdout :
          /\ i < j
          /\ stdout[i].src = "fg" /\ stdout[i].percent = 11
          /\ stdout[j].src = "loading"
    /\ \E i, j \in DOMAIN stdout :
          /\ i < j
          /\ stdout[i].src = "fg" /\ stdout[i].percent = 92
          /\ stdout[j].src = "processing"

\* the PROGRESS lines with percent 100
CompleteLines == { i \in ProgressLines : stdout[i].percent = 100 }

\* C23: once an exception has been raised inside separate_stems, standard output
\* holds no PROGRESS line with percent 100 and no result line, up to the end of the
\* process, which exits with code 1
C23_NoCompletionOnFailure ==
    failure # "none" =>
        /\ CompleteLines = {}
        /\ ResultLines = {}
        /\ pc = "exited" => exitCode = 1

\* C23, its case: the process has ended after shutil.move raised in the renaming
\* loop, the last place where separate_stems can fail, with 92 written
C23_Witness ==
    /\ pc = "exited"
    /\ failure = "move"
    /\ ErrorReported
    /\ \E i \in ProgressLines : stdout[i].src = "fg" /\ stdout[i].percent = 92

\* the processing lines whose stage text carries an ETA
EtaLines == { i \in LinesOf("processing") : stdout[i].stage = "Processing (m:ss | ETA m:ss)" }

\* C24: a line of the processing estimator carries an ETA exactly when its percent
\* is greater than 15: for every percent from 16 to 88 the test
\* (percent - 12) / 78 > 0.05 passes, and from 12 to 15 no ETA is shown
C24_EtaExactlyAbove15 ==
    /\ \A i \in LinesOf("processing") :
          /\ stdout[i].percent \in 12..88
          /\ i \in EtaLines <=> stdout[i].percent > 15
    /\ \A percent \in 16..88 : (percent - 12) * 100 > 5 * 78

\* C24, its case: the line written has percent 16, the lowest that passes both
\* tests, and carries an ETA
C24_Witness ==
    \E i \in EtaLines : stdout[i].percent = 16 /\ progress.pc = "check"

====
